---- MODULE Spec2Model ----
(***************************************************************************)
(* TDOA3 tag of the Loco Positioning deck (lpsTdoa3Tag.c): the ranging     *)
(* payload decoder, the LPP short packet decoder, the receive pipeline and *)
(* the radio event handler.                                                *)
(*                                                                         *)
(* Calls into the collaborators of the module (the TDOA engine and its     *)
(* storage, the statistics, the DW1000 driver) are recorded, in order, in  *)
(* the variable `calls`; the statics of the module are variables.          *)
(***************************************************************************)
EXTENDS Integers, Sequences, FiniteSets, TLC

\* ------------------------------------------------------------------ bounds
\* Largest number of remote anchor records carried by a frame of the model.
MaxRecords == 2

\* ------------------------------------------------------- program constants
PACKET_TYPE_TDOA3 == 48
LPP_HEADER_SHORT_PACKET == 240
LPP_SHORT_ANCHORPOS == 1
MAC802154_HEADER_LENGTH == 21

\* sizeof of the packed structures
SizeofHeader == 7
SizeofFull == 8
SizeofShort == 6
\* sizeof(struct lppShortAnchorPos_s): three floats and two more floats
SizeofAnchorPos == 20

\* ------------------------------------------------------------ byte helpers
\* Little-endian layout of the packed integer fields.
LE16(b0, b1) == b0 + 256 * b1

LE32(b0, b1, b2, b3) == b0 + 256 * b1 + 65536 * b2 + 16777216 * b3

LE16Bytes(v) == << v % 256, (v \div 256) % 256 >>

LE32Bytes(v) ==
  << v % 256, (v \div 256) % 256, (v \div 65536) % 256, (v \div 16777216) % 256 >>

\* payload[off] of a payload held as a sequence (offsets start at 0)
ByteAt(mem, off) == mem[off + 1]

Max(a, b) == IF a >= b THEN a ELSE b

RECURSIVE Flatten(_)
Flatten(ss) == IF ss = << >> THEN << >> ELSE Head(ss) \o Flatten(Tail(ss))

SeqsUpTo(S, n) == UNION { [1..k -> S] : k \in 0..n }

\* One recorded call into a collaborator: its name and up to three arguments.
Call(op, a, b, c) == [op |-> op, a |-> a, b |-> b, c |-> c]

\* -------------------------------------------------------------- wire format
\* A remote anchor record as the sending anchor builds it: Full (with a
\* distance) when the high bit of seq is set, Short otherwise.
IsFull(r) == r.seq >= 128

EncodeRecord(r) ==
  << r.id, r.seq >> \o LE32Bytes(r.rxTimeStamp)
     \o (IF IsFull(r) THEN LE16Bytes(r.distance) ELSE << >>)

EncodeHeader(f) ==
  << f.type, f.seq >> \o LE32Bytes(f.txTimeStamp) \o << f.remoteCount >>

\* The payload of frame f as it lies in memory.
EncodeFrame(f) ==
  EncodeHeader(f)
    \o Flatten([i \in 1..Len(f.records) |-> EncodeRecord(f.records[i])])
    \o f.lpp

RecordSet(ids, seqs, times, dists) ==
  { [id |-> i, seq |-> s, rxTimeStamp |-> t, distance |-> d] :
      i \in ids, s \in { q \in seqs : q >= 128 }, t \in times, d \in dists }
  \cup
  { [id |-> i, seq |-> s, rxTimeStamp |-> t, distance |-> 0] :
      i \in ids, s \in { q \in seqs : q < 128 }, t \in times }

\* ------------------------------------------------------------------ decoder
isValidTimeStamp(anchorRxTime) == anchorRxTime # 0

\* (uint16_t)tof * M_PER_TICK - ANTENNA_OFFSET, in millimetres (fixed point)
TofToLog(tof) == ((tof % 65536) * 4692) \div 1000 - 154600

\* anchorDataPtr += sizeof(remoteAnchorDataFull_t) / sizeof(remoteAnchorDataShort_t)
AdvanceFull_ShortStride(ptr) == ptr + SizeofShort

AdvanceFull(ptr) == ptr + SizeofFull

AdvanceShort_FullStride(ptr) == ptr + SizeofFull

AdvanceShort(ptr) == ptr + SizeofShort

TofUpdate_NeedsRxTime(acc, ctxId, st, remoteId, tof) ==
  IF /\ isValidTimeStamp(tof)
     /\ acc.calls # << >>
     /\ acc.calls[Len(acc.calls)].op = "tdoaStorageSetRemoteRxTime"
     /\ acc.calls[Len(acc.calls)].a = remoteId
  THEN [acc EXCEPT
         !.calls = Append(acc.calls, Call("tdoaStorageSetTimeOfFlight", remoteId, tof, 0))]
  ELSE acc

TofUpdate_SkipsKnownValue(acc, ctxId, st, remoteId, tof) ==
  IF isValidTimeStamp(tof)
       /\ ~(ctxId \in DOMAIN acc.logTof /\ acc.logTof[ctxId] = TofToLog(tof))
  THEN [acc EXCEPT
         !.calls = Append(acc.calls, Call("tdoaStorageSetTimeOfFlight", remoteId, tof, 0)),
         !.logTof = [a \in DOMAIN acc.logTof |->
                       IF a = ctxId THEN TofToLog(tof) ELSE acc.logTof[a]]]
  ELSE acc

TofUpdate_Unchecked(acc, ctxId, st, remoteId, tof) ==
  [acc EXCEPT
     !.calls = Append(acc.calls, Call("tdoaStorageSetTimeOfFlight", remoteId, tof, 0))]

\* The time-of-flight part of one loop iteration (lines 140-163): acc is the
\* state of the walk, ctxId the id of the anchor context, st the instrumented
\* anchor pair of the statistics.
TofUpdate(acc, ctxId, st, remoteId, tof) ==
  IF isValidTimeStamp(tof)
  THEN [acc EXCEPT
         !.calls = (acc.calls \o << Call("tdoaStorageSetTimeOfFlight", remoteId, tof, 0) >>)
                     \o (IF ctxId = st.anchorId /\ remoteId = st.remoteAnchorId
                         THEN << Call("stats.tof", tof % 65536, 0, 0) >>
                         ELSE << >>),
         !.logTof = [a \in DOMAIN acc.logTof |->
                       IF a = ctxId THEN TofToLog(tof) ELSE acc.logTof[a]]]
  ELSE acc

\* anchorData->seq & 0x80
hasDistanceBit(seq) == (seq \div 128) % 2 = 1

\* anchorData->seq & 0x7f
SeqNr_Unmasked(seq) == seq

SeqNr(seq) == seq % 128

RemoteRxUpdate_Unchecked(acc, remoteId, remoteRxTime, remoteSeqNr) ==
  [acc EXCEPT !.calls = Append(acc.calls,
     Call("tdoaStorageSetRemoteRxTime", remoteId, remoteRxTime, remoteSeqNr))]

\* The remote rx time part of one loop iteration (lines 129-135).
RemoteRxUpdate(acc, remoteId, remoteRxTime, remoteSeqNr) ==
  IF isValidTimeStamp(remoteRxTime)
  THEN [acc EXCEPT !.calls = Append(acc.calls,
          Call("tdoaStorageSetRemoteRxTime", remoteId, remoteRxTime, remoteSeqNr))]
  ELSE acc

\* The loop of updateRemoteData from iteration i with the cursor at byte
\* offset ptr of the payload. acc: calls made, record start offsets, the end
\* of the bytes read so far, the log_anchorN_tof statics.
RECURSIVE WalkRemoteData(_, _, _, _, _, _, _)
WalkRemoteData(mem, remoteCount, ctxId, st, i, ptr, acc) ==
  IF i >= remoteCount
  THEN [len |-> ptr, calls |-> acc.calls, starts |-> acc.starts,
        readEnd |-> acc.readEnd, logTof |-> acc.logTof]
  ELSE
    LET remoteId == ByteAt(mem, ptr)
        seq == ByteAt(mem, ptr + 1)
        remoteRxTime == LE32(ByteAt(mem, ptr + 2), ByteAt(mem, ptr + 3),
                             ByteAt(mem, ptr + 4), ByteAt(mem, ptr + 5))
        a1 == RemoteRxUpdate([acc EXCEPT !.starts = Append(acc.starts, ptr)],
                             remoteId, remoteRxTime, SeqNr(seq))
    IN IF hasDistanceBit(seq)
       THEN LET tof == LE16(ByteAt(mem, ptr + 6), ByteAt(mem, ptr + 7))
                a2 == TofUpdate(a1, ctxId, st, remoteId, tof)
            IN WalkRemoteData(mem, remoteCount, ctxId, st, (i + 1) % 256,
                 AdvanceFull(ptr),
                 [a2 EXCEPT !.readEnd = Max(a2.readEnd, ptr + 8)])
       ELSE WalkRemoteData(mem, remoteCount, ctxId, st, (i + 1) % 256,
                 AdvanceShort(ptr),
                 [a1 EXCEPT !.readEnd = Max(a1.readEnd, ptr + 6)])

\* updateRemoteData(anchorCtx, payload): the returned length (len), the calls
\* made on the context, the offset each record was read from, the end of the
\* payload bytes read, and the new values of log_anchor1_tof/log_anchor2_tof.
updateRemoteData(mem, ctxId, st, logTof) ==
  WalkRemoteData(mem, ByteAt(mem, 6), ctxId, st, 0, SizeofHeader,
    [calls |-> << >>, starts |-> << >>, readEnd |-> SizeofHeader, logTof |-> logTof])

\* ---------------------------------------------------------- LPP short packet
\* handleLppShortPacket(anchorCtx, data, length, anchorId), data being the
\* payload from offset typeOff on. logRX holds log_anchorN_RX_snr and
\* log_anchorN_RX_powerdif.
handleLppShortPacket(mem, typeOff, length, anchorId, logRX) ==
  LET type == ByteAt(mem, typeOff)
      F(k) == LE32(ByteAt(mem, typeOff + 1 + 4 * k), ByteAt(mem, typeOff + 2 + 4 * k),
                   ByteAt(mem, typeOff + 3 + 4 * k), ByteAt(mem, typeOff + 4 + 4 * k))
  IN IF type = LPP_SHORT_ANCHORPOS
     THEN [calls |-> << Call("tdoaStorageSetAnchorPosition", F(0), F(1), F(2)) >>,
           readEnd |-> typeOff + 1 + SizeofAnchorPos,
           logRX |-> [a \in DOMAIN logRX |->
                        IF a = anchorId THEN [snr |-> F(3), powerdif |-> F(4)]
                        ELSE logRX[a]]]
     ELSE [calls |-> << >>, readEnd |-> typeOff + 1, logRX |-> logRX]

\* handleLppPacket(dataLength, rangePacketLength, rxPacket, anchorCtx, anchorId)
handleLppPacket(dataLength, rangePacketLength, mem, anchorId, logRX) ==
  LET payloadLength == dataLength - MAC802154_HEADER_LENGTH
      startOfLppDataInPayload == rangePacketLength
      lppDataLength == payloadLength - startOfLppDataInPayload
      lppTypeInPayload == startOfLppDataInPayload + 1
      nothing == [calls |-> << >>, readEnd |-> 0, logRX |-> logRX]
  IN IF lppDataLength > 0
     THEN IF ByteAt(mem, startOfLppDataInPayload) = LPP_HEADER_SHORT_PACKET
          THEN handleLppShortPacket(mem, lppTypeInPayload, lppDataLength - 1,
                                    anchorId, logRX)
          ELSE [nothing EXCEPT !.readEnd = startOfLppDataInPayload + 1]
     ELSE nothing

\* ------------------------------------------------------------ receive path
\* packet->header.type == PACKET_TYPE_TDOA3
IsTdoa3_AnyType(type) == TRUE

IsTdoa3(type) == type = PACKET_TYPE_TDOA3

\* The order of the steps of rxcallback for a TDOA3 frame (lines 250-257): the
\* context is fetched, the remote data decoded, the packet processed, the
\* rx/tx data committed, the LPP data handled.
ReceivePipeline_CommitsFirst(lookup, remote, process, commit, lpp) ==
  lookup \o commit \o remote \o process \o lpp

ReceivePipeline(lookup, remote, process, commit, lpp) ==
  lookup \o remote \o process \o commit \o lpp

\* What rxcallback leaves behind when it does not decode.
NoDec == [len |-> -1, starts |-> << >>, readEnd |-> 0, lppReadEnd |-> 0]

\* rxcallback(dev): r is what the driver hands over (the frame, its length,
\* the arrival time, the signal readings), st the instrumented anchor pair of
\* the statistics, the rest the statics of the module. The context fetched
\* for anchorId answers tdoaStorageGetId with anchorId.
rxcallback(r, now_ms, st, ok, lsnr, lpd, lrx, ltof) ==
  LET anchorId == r.sourceAddress % 256
      counted == << Call("STATS_CNT_RATE_EVENT", 0, 0, 0) >>
      lsnr1 == IF anchorId = 1 THEN [lsnr EXCEPT ![1] = r.quality]
               ELSE IF anchorId = 2 THEN [lsnr EXCEPT ![2] = r.quality]
               ELSE lsnr
      lpd1 == IF anchorId = 1 THEN [lpd EXCEPT ![1] = r.rxPower - r.fpPower]
              ELSE IF anchorId = 2 THEN [lpd EXCEPT ![2] = r.rxPower - r.fpPower]
              ELSE lpd
      rxAn_by_T_in_cl_T == r.arrival
  IN IF IsTdoa3(ByteAt(r.mem, 0))
     THEN LET txAn_in_cl_An == LE32(ByteAt(r.mem, 2), ByteAt(r.mem, 3),
                                    ByteAt(r.mem, 4), ByteAt(r.mem, 5))
              seqNr == SeqNr(ByteAt(r.mem, 1))
              d == updateRemoteData(r.mem, anchorId, st, ltof)
              l == handleLppPacket(r.dataLength, d.len, r.mem, anchorId, lrx)
          IN [calls |-> counted
                 \o ReceivePipeline(
                      << Call("tdoaEngineGetAnchorCtxForPacketProcessing", anchorId, now_ms, 0) >>,
                      d.calls,
                      << Call("tdoaEngineProcessPacket", txAn_in_cl_An, rxAn_by_T_in_cl_T, 0) >>,
                      << Call("tdoaStorageSetRxTxData", rxAn_by_T_in_cl_T, txAn_in_cl_An, seqNr) >>,
                      l.calls),
              rangingOk |-> TRUE,
              log_snr |-> lsnr1, log_powerdiff |-> lpd1,
              log_anchor_RX |-> l.logRX, log_anchor_tof |-> d.logTof,
              dec |-> [len |-> d.len, starts |-> d.starts, readEnd |-> d.readEnd,
                       lppReadEnd |-> l.readEnd]]
     ELSE [calls |-> counted, rangingOk |-> ok,
           log_snr |-> lsnr1, log_powerdiff |-> lpd1,
           log_anchor_RX |-> lrx, log_anchor_tof |-> ltof, dec |-> NoDec]

\* ----------------------------------------------------------- transmit path
setRadioInReceiveMode_NoStart ==
  << Call("dwNewReceive", 0, 0, 0), Call("dwSetDefaults", 0, 0, 0) >>

setRadioInReceiveMode ==
  << Call("dwNewReceive", 0, 0, 0), Call("dwSetDefaults", 0, 0, 0),
     Call("dwStartReceive", 0, 0, 0) >>

sendLppShort_NoStart(packet) ==
  [calls |-> << Call("dwIdle", 0, 0, 0), Call("dwNewTransmit", 0, 0, 0),
                Call("dwSetDefaults", 0, 0, 0),
                Call("dwSetData", MAC802154_HEADER_LENGTH + 1 + packet.length, 0, 0) >>,
   txPacket |-> [payload |-> << LPP_HEADER_SHORT_PACKET >>
                               \o SubSeq(packet.data, 1, packet.length),
                 pan |-> 48335,
                 sourceAddress |-> << 48335, 255 >>,
                 destAddress |-> << 48335, packet.dest >>]]

\* sendLppShort(dev, packet): the calls on the radio and the frame built in
\* the static txPacket.
sendLppShort(packet) ==
  [calls |-> << Call("dwIdle", 0, 0, 0), Call("dwNewTransmit", 0, 0, 0),
                Call("dwSetDefaults", 0, 0, 0),
                Call("dwSetData", MAC802154_HEADER_LENGTH + 1 + packet.length, 0, 0),
                Call("dwStartTransmit", 0, 0, 0) >>,
   txPacket |-> [payload |-> << LPP_HEADER_SHORT_PACKET >>
                               \o SubSeq(packet.data, 1, packet.length),
                 pan |-> 48335,
                 sourceAddress |-> << 48335, 255 >>,
                 destAddress |-> << 48335, packet.dest >>]]

\* lpsGetLppShort(&lppPacket): takes the packet out of the single-slot queue
\* when there is one.
lpsGetLppShort(queue, packet) ==
  IF queue # << >>
  THEN [ok |-> TRUE, queue |-> Tail(queue), packet |-> Head(queue)]
  ELSE [ok |-> FALSE, queue |-> queue, packet |-> packet]

sendLpp_IgnoresResult(queue, packet, tx) ==
  LET g == lpsGetLppShort(queue, packet)
      s == sendLppShort(g.packet)
  IN [sent |-> TRUE, calls |-> << Call("lpsGetLppShort", 0, 0, 0) >> \o s.calls,
      queue |-> g.queue, packet |-> g.packet, txPacket |-> s.txPacket]

sendLpp_NeverSends(queue, packet, tx) ==
  [sent |-> FALSE, calls |-> << Call("lpsGetLppShort", 0, 0, 0) >>,
   queue |-> queue, packet |-> packet, txPacket |-> tx]

\* sendLpp(dev)
sendLpp(queue, packet, tx) ==
  LET g == lpsGetLppShort(queue, packet)
      asked == << Call("lpsGetLppShort", 0, 0, 0) >>
  IN IF g.ok
     THEN LET s == sendLppShort(g.packet)
          IN [sent |-> TRUE, calls |-> asked \o s.calls, queue |-> g.queue,
              packet |-> g.packet, txPacket |-> s.txPacket]
     ELSE [sent |-> FALSE, calls |-> asked, queue |-> g.queue,
           packet |-> g.packet, txPacket |-> tx]

PostProcess_AlwaysRearms(queue, packet, tx) ==
  LET s == sendLpp(queue, packet, tx)
  IN [s EXCEPT !.calls = s.calls \o setRadioInReceiveMode]

\* The part of onEvent after the switch, up to the radio command (lines 316-318).
PostProcess(queue, packet, tx) ==
  LET s == sendLpp(queue, packet, tx)
  IN IF ~s.sent
     THEN [s EXCEPT !.calls = s.calls \o setRadioInReceiveMode]
     ELSE s

\* -------------------------------------------------------------------- state
VARIABLES
  phase,          \* "start", "wait" (between events), "returned", "asserted";
                  \* "frame" and "decoded" for the decoder taken alone
  event,          \* the event being handled, "none" between events
  rx,             \* what the receive buffer of the radio holds for the event
  calls,          \* the calls the handler made on its collaborators, in order
  ret,            \* what the handler returned
  dec,            \* length returned by updateRemoteData and the bytes it read
  rangingOk,      \* static bool rangingOk
  lppQueue,       \* the single-slot queue behind lpsGetLppShort
  lppPacket,      \* static lpsLppShortPacket_t lppPacket
  txPacket,       \* static packet_t txPacket of sendLppShort
  log_snr,        \* log_snr_1, log_snr_2
  log_powerdiff,  \* log_powerdiff_1, log_powerdiff_2
  log_anchor_RX,  \* log_anchorN_RX_snr, log_anchorN_RX_powerdif
  log_anchor_tof, \* log_anchor1_tof, log_anchor2_tof
  stats           \* tdoaEngineState.stats: the instrumented anchor pair

vars == << phase, event, rx, calls, ret, dec, rangingOk, lppQueue, lppPacket,
           txPacket, log_snr, log_powerdiff, log_anchor_RX, log_anchor_tof, stats >>

statics == << rangingOk, lppPacket, txPacket, log_snr, log_powerdiff,
              log_anchor_RX, log_anchor_tof >>

\* ------------------------------------------------------------------- inputs
KnownEvents ==
  { "eventPacketReceived", "eventTimeout", "eventReceiveTimeout", "eventPacketSent" }

Events == KnownEvents \cup { "eventOther" }

\* Frames of the decoder taken alone: every mix of these records.
DecodeRecords == RecordSet({7, 9}, {2, 129}, {0, 300, 500}, {0, 200})

\* Frames of the event loop.
RxRecords == RecordSet({7}, {2, 129}, {500}, {0, 200})

Frame(type, seq, tx, records, lpp) ==
  [type |-> type, seq |-> seq, txTimeStamp |-> tx, remoteCount |-> Len(records),
   records |-> records, lpp |-> lpp]

\* An anchor position record: x, y, z, snr, power_diff, four bytes each.
AnchorPosBytes ==
  LE32Bytes(11) \o LE32Bytes(12) \o LE32Bytes(13) \o LE32Bytes(14) \o LE32Bytes(15)

\* What may follow the ranging payload in a frame.
LppTrailers ==
  { << >>,
    << LPP_HEADER_SHORT_PACKET >>,
    << LPP_HEADER_SHORT_PACKET, LPP_SHORT_ANCHORPOS >> \o AnchorPosBytes,
    << LPP_HEADER_SHORT_PACKET, 5, 1, 2 >>,
    << 0, LPP_SHORT_ANCHORPOS >> \o AnchorPosBytes }

\* rxPacket is a local of rxcallback: the bytes after the received ones are
\* whatever the stack held.
UninitTails ==
  { [i \in 1..(1 + SizeofAnchorPos) |-> 0], [i \in 1..(1 + SizeofAnchorPos) |-> 1] }

WireLength(records) ==
  Len(Flatten([i \in 1..Len(records) |-> EncodeRecord(records[i])]))

\* The radio received frame f from the anchor with address src; cut = 1 when
\* the frame ends before the last record its remoteCount announces (the bytes
\* of that record are then bytes of the uninitialised part of rxPacket).
Capture(src, f, cut, tail) ==
  LET n == Len(f.records)
      received == IF cut = 0 THEN Len(EncodeFrame(f))
                  ELSE SizeofHeader + WireLength(SubSeq(f.records, 1, n - cut))
  IN [sourceAddress |-> src, frame |-> f, cut |-> cut,
      mem |-> EncodeFrame(f) \o tail,
      dataLength |-> MAC802154_HEADER_LENGTH + received,
      arrival |-> 2000, quality |-> 3, rxPower |-> 9, fpPower |-> 4]

RxInputs ==
  { Capture(src, Frame(type, 133, 1000, recs, lpp), 0, tail) :
      src \in {257, 3}, type \in {PACKET_TYPE_TDOA3, 49},
      recs \in SeqsUpTo(RxRecords, MaxRecords), lpp \in LppTrailers,
      tail \in UninitTails }
  \cup
  { Capture(src, Frame(type, 133, 1000, recs, << >>), 1, tail) :
      src \in {257, 3}, type \in {PACKET_TYPE_TDOA3, 49},
      recs \in SeqsUpTo(RxRecords, MaxRecords) \ { << >> },
      tail \in UninitTails }

DecodeInputs ==
  { Capture(src, Frame(PACKET_TYPE_TDOA3, 5, 1000, recs, << >>), 0, tail) :
      src \in {257, 3}, recs \in SeqsUpTo(DecodeRecords, MaxRecords),
      tail \in { [i \in 1..(1 + SizeofAnchorPos) |-> 0] } }

\* What the receive buffer of the radio holds when the event is not a
\* reception: a frame of an earlier reception.
StaleRx ==
  Capture(257, Frame(PACKET_TYPE_TDOA3, 133, 1000,
                     << [id |-> 7, seq |-> 129, rxTimeStamp |-> 500, distance |-> 200] >>,
                     << >>), 0, [i \in 1..(1 + SizeofAnchorPos) |-> 0])

\* Packets the configuration side may queue for sending.
LppPackets ==
  { [dest |-> 1, length |-> 2, data |-> << 5, 9 >>],
    [dest |-> 2, length |-> 1, data |-> << 6 >>] }

NoPacket == [dest |-> 0, length |-> 0, data |-> << >>]

NoTxPacket ==
  [payload |-> << >>, pan |-> 0, sourceAddress |-> << 0, 0 >>, destAddress |-> << 0, 0 >>]

\* ---------------------------------------------------------- initial states
StaticsZero ==
  /\ rangingOk = FALSE
  /\ lppPacket = NoPacket
  /\ txPacket = NoTxPacket
  /\ log_snr = [a \in 1..2 |-> 0]
  /\ log_powerdiff = [a \in 1..2 |-> 0]
  /\ log_anchor_RX = [a \in 1..2 |-> [snr |-> 0, powerdif |-> 0]]
  /\ log_anchor_tof = [a \in 1..2 |-> 0]

Init ==
  /\ phase = "start"
  /\ event = "none"
  /\ rx = "none"
  /\ calls = << >>
  /\ ret = "none"
  /\ dec = NoDec
  /\ lppQueue = << >>
  /\ stats = [anchorId |-> 1, remoteAnchorId |-> 7]
  /\ StaticsZero

\* ------------------------------------------------------------------ actions
\* Initialize(dev)
Initialize ==
  /\ phase \in { "start", "wait" }
  /\ phase' = "returned"
  /\ event' = "init"
  /\ rx' = "none"
  /\ calls' = << Call("tdoaEngineInit", 0, 0, 0),
                 Call("dwSetReceiveWaitTimeout", 10000, 0, 0),
                 Call("dwCommitConfiguration", 0, 0, 0) >>
  /\ ret' = "none"
  /\ dec' = NoDec
  /\ rangingOk' = FALSE
  /\ UNCHANGED << lppQueue, lppPacket, txPacket, log_snr, log_powerdiff,
                  log_anchor_RX, log_anchor_tof, stats >>

\* The cases of the switch of onEvent; any other value reaches the default.
IsKnownEvent_NoDefault(ev) == TRUE

IsKnownEvent(ev) == ev \in KnownEvents

\* case eventPacketReceived: rxcallback(dev)
Decodes_OnEveryEvent(ev) == TRUE

Decodes(ev) == ev = "eventPacketReceived"

\* ASSERT_FAILED() of cfassert.h: the assertion is recorded and control does
\* not come back to the handler.
ASSERT_FAILED == [returns |-> FALSE, calls |-> << Call("ASSERT_FAILED", 0, 0, 0) >>]

\* onEvent(dev, event), with the frame r the radio holds and the tick count.
onEvent(ev, r, now_ms) ==
  /\ phase = "wait"
  /\ event' = ev
  /\ rx' = r
  /\ IF ~IsKnownEvent(ev) /\ ~ASSERT_FAILED.returns
     THEN \* default: ASSERT_FAILED(), the handler goes no further
          /\ phase' = "asserted"
          /\ calls' = ASSERT_FAILED.calls
          /\ ret' = "none"
          /\ dec' = NoDec
          /\ UNCHANGED << rangingOk, lppQueue, lppPacket, txPacket, log_snr,
                          log_powerdiff, log_anchor_RX, log_anchor_tof, stats >>
     ELSE LET cb == IF Decodes(ev)
                    THEN rxcallback(r, now_ms, stats, rangingOk, log_snr,
                                    log_powerdiff, log_anchor_RX, log_anchor_tof)
                    ELSE [calls |-> << >>, rangingOk |-> rangingOk,
                          log_snr |-> log_snr, log_powerdiff |-> log_powerdiff,
                          log_anchor_RX |-> log_anchor_RX,
                          log_anchor_tof |-> log_anchor_tof, dec |-> NoDec]
              post == PostProcess(lppQueue, lppPacket, txPacket)
          IN /\ phase' = "returned"
             /\ calls' = cb.calls \o post.calls
                           \o << Call("tdoaStatsUpdate", now_ms, 0, 0) >>
             /\ ret' = "MAX_TIMEOUT"
             /\ dec' = cb.dec
             /\ rangingOk' = cb.rangingOk
             /\ log_snr' = cb.log_snr
             /\ log_powerdiff' = cb.log_powerdiff
             /\ log_anchor_RX' = cb.log_anchor_RX
             /\ log_anchor_tof' = cb.log_anchor_tof
             /\ lppQueue' = post.queue
             /\ lppPacket' = post.packet
             /\ txPacket' = post.txPacket
             /\ UNCHANGED stats

\* The handler has returned; the task waits for the next event of the radio.
WaitForEvent ==
  /\ phase = "returned"
  /\ phase' = "wait"
  /\ event' = "none"
  /\ rx' = "none"
  /\ calls' = << >>
  /\ ret' = "none"
  /\ dec' = NoDec
  /\ UNCHANGED << rangingOk, lppQueue, lppPacket, txPacket, log_snr,
                  log_powerdiff, log_anchor_RX, log_anchor_tof, stats >>

\* The configuration side puts a packet in the queue when the slot is free.
lpsSendLppShort(p) ==
  /\ phase = "wait"
  /\ lppQueue = << >>
  /\ lppQueue' = << p >>
  /\ UNCHANGED << phase, event, rx, calls, ret, dec, rangingOk, lppPacket,
                  txPacket, log_snr, log_powerdiff, log_anchor_RX,
                  log_anchor_tof, stats >>

Next ==
  \/ Initialize
  \/ \E ev \in Events :
       \E r \in (IF ev = "eventPacketReceived" THEN RxInputs ELSE { StaleRx }) :
         onEvent(ev, r, 10)
  \/ WaitForEvent
  \/ \E p \in LppPackets : lpsSendLppShort(p)

Spec == Init /\ [][Next]_vars

\* ------------------------------------------------- the decoder taken alone
InitDecode ==
  /\ phase = "frame"
  /\ event = "none"
  /\ rx \in DecodeInputs
  /\ calls = << >>
  /\ ret = "none"
  /\ dec = NoDec
  /\ lppQueue = << >>
  /\ stats = [anchorId |-> 1, remoteAnchorId |-> 7]
  /\ StaticsZero

\* updateRemoteData applied to the payload of rx, on the context of its sender.
DecodeFrame ==
  /\ phase = "frame"
  /\ LET d == updateRemoteData(rx.mem, rx.sourceAddress % 256, stats, log_anchor_tof)
     IN /\ calls' = d.calls
        /\ dec' = [len |-> d.len, starts |-> d.starts, readEnd |-> d.readEnd,
                   lppReadEnd |-> 0]
        /\ log_anchor_tof' = d.logTof
  /\ phase' = "decoded"
  /\ UNCHANGED << event, rx, ret, rangingOk, lppQueue, lppPacket, txPacket,
                  log_snr, log_powerdiff, log_anchor_RX, stats >>

\* The same payload decoded once more on a context that was reset; the
\* statics of the module are as the first decode left them.
DecodeAgain ==
  /\ phase = "decoded"
  /\ LET d == updateRemoteData(rx.mem, rx.sourceAddress % 256, stats, log_anchor_tof)
     IN /\ calls' = d.calls
        /\ dec' = [len |-> d.len, starts |-> d.starts, readEnd |-> d.readEnd,
                   lppReadEnd |-> 0]
        /\ log_anchor_tof' = d.logTof
  /\ phase' = "decoded again"
  /\ UNCHANGED << event, rx, ret, rangingOk, lppQueue, lppPacket, txPacket,
                  log_snr, log_powerdiff, log_anchor_RX, stats >>

NextDecode == DecodeFrame \/ DecodeAgain

SpecDecode == InitDecode /\ [][NextDecode]_vars

\* =================================================================== claims
CallsIn(cs, op) == SelectSeq(cs, LAMBDA c : c.op = op)

CountIn(cs, op) == Len(CallsIn(cs, op))

\* A step in which onEvent handles event ev to its return.
Handled(ev) == phase = "wait" /\ phase' = "returned" /\ event' = ev

\* Width on the wire of the records rs, from the packed layouts.
RECURSIVE SumWidths(_)
SumWidths(rs) ==
  IF rs = << >> THEN 0
  ELSE (IF Head(rs).seq >= 128 THEN 8 ELSE 6) + SumWidths(Tail(rs))

\* C1: handling a PacketReceived, Timeout or ReceiveTimeout event starts
\* exactly one of {transmission, reception}: a transmission if and only if the
\* outgoing queue held a packet when the handler looked, a receiver re-arm if
\* and only if it was empty.
C1_TransmitXorRearm ==
  [][ \A ev \in { "eventPacketReceived", "eventTimeout", "eventReceiveTimeout" } :
        Handled(ev) =>
          LET nTx == CountIn(calls', "dwStartTransmit")
              nRx == CountIn(calls', "dwStartReceive")
          IN /\ nTx + nRx = 1
             /\ (nTx = 1) <=> (lppQueue # << >>)
             /\ (nRx = 1) <=> (lppQueue = << >>)
             /\ CountIn(calls', "dwNewReceive") = nRx
             /\ CountIn(calls', "dwNewTransmit") = nTx ]_vars

C1_Witness ==
  /\ phase = "returned"
  /\ event = "eventReceiveTimeout"
  /\ CountIn(calls, "dwStartTransmit") = 1
  /\ CountIn(calls, "dwStartReceive") = 0
  /\ lppQueue = << >>

\* C2 as stated: handling a PacketSent event never calls setRadioInReceiveMode
\* (no dwNewReceive, no dwStartReceive), whatever the queue holds.
C2_NoRearmOnPacketSent ==
  (phase = "returned" /\ event = "eventPacketSent") =>
    (CountIn(calls, "dwNewReceive") = 0 /\ CountIn(calls, "dwStartReceive") = 0)

\* C2 amended: the PacketSent branch itself issues no command (the first call
\* of the handler is the look at the outgoing queue), and the common tail then
\* re-arms the receiver if and only if the queue is empty and transmits
\* otherwise.
C2_PacketSentRearmsIffQueueEmpty ==
  [][ Handled("eventPacketSent") =>
        /\ Head(calls').op = "lpsGetLppShort"
        /\ (CountIn(calls', "dwStartReceive") = 1) <=> (lppQueue = << >>)
        /\ (CountIn(calls', "dwStartReceive") = 0) <=> (lppQueue # << >>)
        /\ (CountIn(calls', "dwStartTransmit") = 1) <=> (lppQueue # << >>)
        /\ CountIn(calls', "dwStartReceive") + CountIn(calls', "dwStartTransmit") = 1
    ]_vars

C2_Witness ==
  /\ phase = "returned"
  /\ event = "eventPacketSent"
  /\ CountIn(calls, "dwStartReceive") = 1
  /\ CountIn(calls, "dwStartTransmit") = 0

\* ------------------------------------------------------ the ranging decoder
\* The records the sender put in the frame that was decoded.
SentRecords == rx.frame.records

\* Byte offset in the payload at which the sender put record i.
TrueStart(i) == 7 + SumWidths(SubSeq(SentRecords, 1, i - 1))

\* C3: for a well-formed frame with N records, any mix of Full and Short,
\* updateRemoteData returns 7 plus 8 for each record whose seq high bit is set
\* and 6 for each other record; 7 when N = 0.
C3_ReturnedLength ==
  phase = "decoded" =>
    /\ dec.len = 7 + SumWidths(SentRecords)
    /\ (SentRecords = << >> => dec.len = 7)

C3_Witness ==
  /\ phase = "decoded"
  /\ Len(SentRecords) = 2
  /\ SentRecords[1].seq < 128
  /\ SentRecords[2].seq >= 128
  /\ dec.len = 21

\* C4: record i is read at byte offset 7 plus the widths of the records
\* before it (8 for a record with its own seq high bit set, 6 otherwise), and
\* the id, seq and rxTimestamp found there are those of record i.
C4_RecordReadAtItsStart ==
  phase = "decoded" =>
    /\ Len(dec.starts) = Len(SentRecords)
    /\ \A i \in 1..Len(SentRecords) :
         /\ dec.starts[i] = TrueStart(i)
         /\ ByteAt(rx.mem, dec.starts[i]) = SentRecords[i].id
         /\ ByteAt(rx.mem, dec.starts[i] + 1) = SentRecords[i].seq
         /\ LE32(ByteAt(rx.mem, dec.starts[i] + 2), ByteAt(rx.mem, dec.starts[i] + 3),
                 ByteAt(rx.mem, dec.starts[i] + 4), ByteAt(rx.mem, dec.starts[i] + 5))
              = SentRecords[i].rxTimeStamp

C4_Witness ==
  /\ phase = "decoded"
  /\ Len(SentRecords) = 2
  /\ SentRecords[1].seq >= 128
  /\ SentRecords[2].seq < 128
  /\ dec.starts = << 7, 15 >>

\* Ids of the records of rs that satisfy test, in order.
IdsWhere(rs, test(_)) ==
  LET sel == SelectSeq(rs, test) IN [i \in 1..Len(sel) |-> sel[i].id]

IdsOf(cs) == [i \in 1..Len(cs) |-> cs[i].a]

\* C6: the remote rx time updates of a decode are, in order, one for each
\* record whose rx timestamp is not zero, made for that record's id; a record
\* with a zero timestamp gets none.
C6_RemoteRxTimeIffNonZero ==
  phase = "decoded" =>
    IdsOf(CallsIn(calls, "tdoaStorageSetRemoteRxTime"))
      = IdsWhere(SentRecords, LAMBDA r : r.rxTimeStamp # 0)

C6_Witness ==
  /\ phase = "decoded"
  /\ Len(SentRecords) = 2
  /\ SentRecords[1].rxTimeStamp = 0
  /\ SentRecords[2].rxTimeStamp # 0
  /\ SentRecords[1].id # SentRecords[2].id
  /\ IdsOf(CallsIn(calls, "tdoaStorageSetRemoteRxTime")) = << SentRecords[2].id >>

\* C7: the time-of-flight updates of a decode are, in order, one for each
\* Full record whose distance is not zero, made for that record's id; a Full
\* record with distance zero gets none and still takes 8 bytes; a Short
\* record gets none.
C7_TimeOfFlightIffFullNonZero ==
  phase = "decoded" =>
    /\ IdsOf(CallsIn(calls, "tdoaStorageSetTimeOfFlight"))
         = IdsWhere(SentRecords, LAMBDA r : r.seq >= 128 /\ r.distance # 0)
    /\ \A i \in 1..Len(SentRecords) :
         (SentRecords[i].seq >= 128 /\ SentRecords[i].distance = 0) =>
           (IF i < Len(SentRecords) THEN dec.starts[i + 1] ELSE dec.len)
             = dec.starts[i] + 8

C7_Witness ==
  /\ phase = "decoded"
  /\ Len(SentRecords) = 2
  /\ SentRecords[1].seq >= 128 /\ SentRecords[1].distance = 0
  /\ SentRecords[2].seq >= 128 /\ SentRecords[2].distance # 0
  /\ dec.starts = << 7, 15 >>
  /\ IdsOf(CallsIn(calls, "tdoaStorageSetTimeOfFlight")) = << SentRecords[2].id >>

\* The storage updates the records rs call for, in order.
RECURSIVE StoredFor(_)
StoredFor(rs) ==
  IF rs = << >> THEN << >>
  ELSE LET r == Head(rs)
       IN (IF r.rxTimeStamp # 0
           THEN << Call("tdoaStorageSetRemoteRxTime", r.id, r.rxTimeStamp, r.seq % 128) >>
           ELSE << >>)
          \o (IF r.seq >= 128 /\ r.distance # 0
              THEN << Call("tdoaStorageSetTimeOfFlight", r.id, r.distance, 0) >>
              ELSE << >>)
          \o StoredFor(Tail(rs))

StorageCalls ==
  SelectSeq(calls, LAMBDA c : c.op \in { "tdoaStorageSetRemoteRxTime",
                                          "tdoaStorageSetTimeOfFlight" })

ExampleRecords ==
  << [id |-> 7, seq |-> 129, rxTimeStamp |-> 500, distance |-> 200],
     [id |-> 9, seq |-> 2, rxTimeStamp |-> 300, distance |-> 0] >>

\* C8: what the decoder stores are the fields of the records: (id,
\* rxTimestamp, seq mod 128) for a record with a non-zero timestamp, the raw
\* 16-bit distance for a Full record with a non-zero distance; the frame
\* Full{7, 0x81, 500, 200}, Short{9, 0x02, 300} stores (7, 500, 1), time of
\* flight 200 for 7, (9, 300, 2), nothing else, and returns 21.
C8_StoredValues ==
  phase = "decoded" =>
    /\ StorageCalls = StoredFor(SentRecords)
    /\ SentRecords = ExampleRecords =>
         /\ StorageCalls = << Call("tdoaStorageSetRemoteRxTime", 7, 500, 1),
                              Call("tdoaStorageSetTimeOfFlight", 7, 200, 0),
                              Call("tdoaStorageSetRemoteRxTime", 9, 300, 2) >>
         /\ dec.len = 21

C8_Witness ==
  /\ phase = "decoded"
  /\ SentRecords = ExampleRecords
  /\ Len(StorageCalls) = 3
  /\ dec.len = 21

\* ------------------------------------------------------- the receive handler
ContextUpdates ==
  { "tdoaStorageSetRemoteRxTime", "tdoaStorageSetTimeOfFlight",
    "tdoaStorageSetRxTxData", "tdoaStorageSetAnchorPosition" }

EngineCalls ==
  ContextUpdates \cup { "tdoaEngineGetAnchorCtxForPacketProcessing",
                        "tdoaEngineProcessPacket", "stats.tof" }

\* Bytes of payload the radio received for the frame r.
PayloadLength(r) == r.dataLength - 21

\* The frame r announces more records than the radio received.
Malformed(r) == r.frame.type = 48 /\ r.cut > 0

\* The calls rxcallback made: those before the look at the outgoing queue.
CallsOfReceive(cs) ==
  LET k == CHOOSE i \in 1..Len(cs) :
             cs[i].op = "lpsGetLppShort" /\ \A j \in 1..(i - 1) : cs[j].op # "lpsGetLppShort"
  IN SubSeq(cs, 1, k - 1)

\* C5: a frame whose remoteCount runs past the received bytes is not decoded:
\* no context update is made for it and no byte beyond the received payload
\* is read.
C5_MalformedFrameAborted ==
  (phase = "returned" /\ event = "eventPacketReceived" /\ Malformed(rx)) =>
    /\ \A i \in 1..Len(calls) : calls[i].op \notin ContextUpdates
    /\ dec.readEnd <= PayloadLength(rx)
    /\ dec.lppReadEnd <= PayloadLength(rx)

\* C9 as stated: for a frame whose type byte is not 0x30 the receive handler
\* calls nothing and changes no state of the module.
C9_NonTdoa3IsNoOp ==
  [][ (Handled("eventPacketReceived") /\ rx'.frame.type # 48) =>
        /\ CallsOfReceive(calls') = << >>
        /\ UNCHANGED << rangingOk, log_snr, log_powerdiff, log_anchor_RX,
                        log_anchor_tof >> ]_vars

\* C9 amended: for a frame whose type byte is not 0x30 the receive handler
\* makes no call on the engine or a context, decodes nothing and leaves
\* rangingOk and the telemetry of decoding alone; it does count the packet in
\* the received-packet statistic and, when the sender's id is 1 or 2, stores
\* the signal readings of the reception in that anchor's log_snr and
\* log_powerdiff.
C9_NonTdoa3OnlyCountsAndLogs ==
  [][ (Handled("eventPacketReceived") /\ rx'.frame.type # 48) =>
        /\ CallsOfReceive(calls') = << Call("STATS_CNT_RATE_EVENT", 0, 0, 0) >>
        /\ \A i \in 1..Len(calls') : calls'[i].op \notin EngineCalls
        /\ dec' = NoDec
        /\ UNCHANGED << rangingOk, log_anchor_RX, log_anchor_tof >>
        /\ \A a \in 1..2 :
             IF a = rx'.sourceAddress % 256
             THEN /\ log_snr'[a] = rx'.quality
                  /\ log_powerdiff'[a] = rx'.rxPower - rx'.fpPower
             ELSE /\ log_snr'[a] = log_snr[a]
                  /\ log_powerdiff'[a] = log_powerdiff[a] ]_vars

C9_Witness ==
  /\ phase = "returned"
  /\ event = "eventPacketReceived"
  /\ rx.frame.type = 49
  /\ rx.frame.records # << >>
  /\ rx.sourceAddress % 256 = 1
  /\ log_snr[1] = 3
  /\ ~rangingOk
  /\ CallsOfReceive(calls) = << Call("STATS_CNT_RATE_EVENT", 0, 0, 0) >>

\* C10: rangingOk is false after Initialize, turns true only in the handling
\* of a well-formed TDOA3 packet, and once true stays true in every step that
\* is not Initialize.
C10_LatchedByWellFormedPacketOnly ==
  [][ /\ (phase' = "returned" /\ event' = "init") => ~rangingOk'
      /\ (~rangingOk /\ rangingOk') =>
           /\ Handled("eventPacketReceived")
           /\ rx'.frame.type = 48
           /\ ~Malformed(rx')
      /\ (rangingOk /\ ~(phase' = "returned" /\ event' = "init")) => rangingOk'
    ]_vars

\* ------------------------------------------------------- the event handler
\* C11: for an event outside the four known kinds the handler stops at the
\* assertion: nothing is decoded, the outgoing queue is not read, no radio
\* command is issued, the statistics are not updated and nothing is returned.
C11_UnknownEventStopsAtAssertion ==
  [][ (phase = "wait" /\ event' \notin (KnownEvents \cup { "none", "init" })
         /\ event' # event) =>
        /\ phase' = "asserted"
        /\ calls' = << Call("ASSERT_FAILED", 0, 0, 0) >>
        /\ ret' = "none"
        /\ dec' = NoDec
        /\ UNCHANGED << rangingOk, lppQueue, lppPacket, txPacket, log_snr,
                        log_powerdiff, log_anchor_RX, log_anchor_tof >> ]_vars

C11_Witness ==
  /\ phase = "asserted"
  /\ event = "eventOther"
  /\ lppQueue # << >>
  /\ calls = << Call("ASSERT_FAILED", 0, 0, 0) >>
  /\ ret = "none"

\* ---------------------------------------------------- the auxiliary decoder
\* The bytes the frame r carries after its ranging payload.
Trailing(r) == r.frame.lpp

\* The frame r carries a short packet whose type byte says anchor position.
CarriesAnchorPos(r) ==
  /\ r.cut = 0
  /\ Len(Trailing(r)) > 0
  /\ Trailing(r)[1] = 240
  /\ Len(Trailing(r)) >= 2
  /\ Trailing(r)[2] = 1

\* C12: handling a TDOA3 frame commits an anchor position if and only if the
\* frame has bytes after the ranging payload, the first of them is the short
\* packet tag and the type byte that follows is the anchor position type;
\* otherwise the auxiliary decoder changes nothing.
C12_PositionIffAnchorPosPacket ==
  [][ (Handled("eventPacketReceived") /\ rx'.frame.type = 48) =>
        /\ (CountIn(calls', "tdoaStorageSetAnchorPosition") = 1)
             <=> CarriesAnchorPos(rx')
        /\ ~CarriesAnchorPos(rx') =>
             /\ CountIn(calls', "tdoaStorageSetAnchorPosition") = 0
             /\ log_anchor_RX' = log_anchor_RX ]_vars

\* ------------------------------------------------------ the outgoing queue
\* A step in which onEvent handles one of the four known events.
HandledKnown == phase = "wait" /\ phase' = "returned" /\ event' \in KnownEvents

\* C13: one invocation of onEvent asks the queue at most once and starts at
\* most one transmission; what it transmits is the packet it took out of the
\* queue in that invocation, so a queued packet is sent at most once; and the
\* handler never puts a packet in the queue.
C13_QueueConsumedAtMostOnce ==
  [][ HandledKnown =>
        /\ CountIn(calls', "lpsGetLppShort") <= 1
        /\ CountIn(calls', "dwStartTransmit") <= 1
        /\ CountIn(calls', "dwStartTransmit") = 1 =>
             /\ lppQueue # << >>
             /\ lppQueue' = Tail(lppQueue)
             /\ lppPacket' = Head(lppQueue)
             /\ txPacket'.payload = << 240 >> \o Head(lppQueue).data
             /\ txPacket'.destAddress[2] = Head(lppQueue).dest
        /\ Len(lppQueue') <= Len(lppQueue)
        /\ \A i \in 1..Len(lppQueue') : lppQueue'[i] = lppQueue[i + Len(lppQueue) - Len(lppQueue')]
    ]_vars

C13_Witness ==
  /\ phase = "returned"
  /\ event = "eventPacketReceived"
  /\ CountIn(calls, "lpsGetLppShort") = 1
  /\ CountIn(calls, "dwStartTransmit") = 1
  /\ lppQueue = << >>
  /\ lppPacket = [dest |-> 2, length |-> 1, data |-> << 6 >>]
  /\ txPacket.payload = << 240, 6 >>

\* C14: a packet that is in the queue when a known event of any kind is
\* handled is taken out and its transmission started within the handling of
\* that event; no packet is left in the queue by a handled event.
C14_QueuedPacketSentByNextEvent ==
  [][ (HandledKnown /\ lppQueue # << >>) =>
        /\ lppQueue' = << >>
        /\ CountIn(calls', "dwStartTransmit") = 1
        /\ CountIn(calls', "dwStartReceive") = 0
        /\ txPacket'.payload = << 240 >> \o Head(lppQueue).data
        /\ txPacket'.destAddress[2] = Head(lppQueue).dest ]_vars

C14_Witness ==
  /\ phase = "returned"
  /\ event = "eventPacketSent"
  /\ CountIn(calls, "dwStartTransmit") = 1
  /\ lppQueue = << >>
  /\ txPacket.payload = << 240, 5, 9 >>
  /\ txPacket.destAddress = << 48335, 1 >>

\* ------------------------------------------------------- decoding once more
\* C15: decoding the same well-formed frame a second time, on a context that
\* was reset, makes the same context updates with the same values in the same
\* order and returns the same length as the first time, whatever the first
\* decode left in the statics of the module.
C15_SecondDecodeSameAsFirst ==
  [][ (phase = "decoded" /\ phase' = "decoded again") =>
        /\ calls' = calls
        /\ dec'.len = dec.len
        /\ dec'.starts = dec.starts ]_vars

C15_Witness ==
  /\ phase = "decoded again"
  /\ Len(SentRecords) = 2
  /\ log_anchor_tof[1] # 0
  /\ CountIn(calls, "tdoaStorageSetTimeOfFlight") >= 1
  /\ CountIn(calls, "tdoaStorageSetRemoteRxTime") >= 1
  /\ dec.len = 21

\* ------------------------------------------------------ the receive pipeline
\* Positions in cs of the calls named op.
IndexesOf(cs, op) == { i \in 1..Len(cs) : cs[i].op = op }

\* C16: for a received TDOA3 frame the handler fetches the context of the
\* sender once, then makes the remote rx time and time-of-flight updates,
\* then calls the measurement processing once with the frame's tx timestamp
\* and the local rx timestamp, then commits rx, tx and the 7-bit sequence
\* number once, then handles the LPP data found at the offset the ranging
\* decoder returned.
C16_PipelineOrder ==
  (phase = "returned" /\ event = "eventPacketReceived" /\ rx.frame.type = 48) =>
    LET cs == CallsOfReceive(calls)
        look == IndexesOf(cs, "tdoaEngineGetAnchorCtxForPacketProcessing")
        proc == IndexesOf(cs, "tdoaEngineProcessPacket")
        comm == IndexesOf(cs, "tdoaStorageSetRxTxData")
        remote == IndexesOf(cs, "tdoaStorageSetRemoteRxTime")
                    \cup IndexesOf(cs, "tdoaStorageSetTimeOfFlight")
        pos == IndexesOf(cs, "tdoaStorageSetAnchorPosition")
    IN /\ Cardinality(look) = 1 /\ Cardinality(proc) = 1 /\ Cardinality(comm) = 1
       /\ \A l \in look, p \in proc, c \in comm :
            /\ l < p /\ c = p + 1
            /\ \A r \in remote : l < r /\ r < p
            /\ \A a \in pos : c < a
            /\ cs[l].a = rx.sourceAddress % 256
            /\ cs[p].a = rx.frame.txTimeStamp /\ cs[p].b = rx.arrival
            /\ cs[c].a = rx.arrival /\ cs[c].b = rx.frame.txTimeStamp
            /\ cs[c].c = rx.frame.seq % 128
       /\ Cardinality(pos) <= 1
       /\ (pos # {}) <=> /\ PayloadLength(rx) - dec.len > 0
                         /\ ByteAt(rx.mem, dec.len) = LPP_HEADER_SHORT_PACKET
                         /\ ByteAt(rx.mem, dec.len + 1) = LPP_SHORT_ANCHORPOS
       /\ \A a \in pos :
            cs[a].a = LE32(ByteAt(rx.mem, dec.len + 2), ByteAt(rx.mem, dec.len + 3),
                           ByteAt(rx.mem, dec.len + 4), ByteAt(rx.mem, dec.len + 5))

C16_Witness ==
  /\ phase = "returned"
  /\ event = "eventPacketReceived"
  /\ rx.frame.type = 48
  /\ rx.cut = 0
  /\ Len(rx.frame.records) = 2
  /\ CountIn(calls, "tdoaStorageSetRemoteRxTime") = 2
  /\ CountIn(calls, "tdoaStorageSetTimeOfFlight") = 1
  /\ CountIn(calls, "tdoaStorageSetAnchorPosition") = 1
  /\ CarriesAnchorPos(rx)

\* ------------------------------------------------------------ invalid fields
\* The last n elements of the sequence cs.
LastOf(cs, n) == SubSeq(cs, Len(cs) - n + 1, Len(cs))

\* The storage updates made before those of the records after record i.
Before(i) ==
  SubSeq(StorageCalls, 1,
         Len(StorageCalls) - Len(StoredFor(SubSeq(SentRecords, i + 1, Len(SentRecords)))))

\* C17: a zero field discards only that field. A Full record with a zero
\* timestamp and a non-zero distance still gets its time-of-flight update, a
\* Full record with a non-zero timestamp and a zero distance still gets its
\* remote rx time update, and after any record with a zero field every later
\* record is read at its own offset and its updates are made.
C17_ZeroFieldDiscardsOnlyThatField ==
  phase = "decoded" =>
    \A i \in 1..Len(SentRecords) :
      LET r == SentRecords[i]
          later == SubSeq(SentRecords, i + 1, Len(SentRecords))
      IN (r.rxTimeStamp = 0 \/ (r.seq >= 128 /\ r.distance = 0)) =>
           /\ Len(dec.starts) = Len(SentRecords)
           /\ \A j \in (i + 1)..Len(SentRecords) : dec.starts[j] = TrueStart(j)
           /\ Len(StorageCalls) >= Len(StoredFor(later))
           /\ LastOf(StorageCalls, Len(StoredFor(later))) = StoredFor(later)
           /\ (r.rxTimeStamp = 0 /\ r.seq >= 128 /\ r.distance # 0) =>
                /\ Before(i) # << >>
                /\ Before(i)[Len(Before(i))]
                     = Call("tdoaStorageSetTimeOfFlight", r.id, r.distance, 0)
           /\ (r.rxTimeStamp # 0 /\ r.seq >= 128 /\ r.distance = 0) =>
                /\ Before(i) # << >>
                /\ Before(i)[Len(Before(i))]
                     = Call("tdoaStorageSetRemoteRxTime", r.id, r.rxTimeStamp, r.seq % 128)

C17_Witness ==
  /\ phase = "decoded"
  /\ Len(SentRecords) = 2
  /\ SentRecords[1].seq >= 128
  /\ SentRecords[1].rxTimeStamp = 0 /\ SentRecords[1].distance # 0
  /\ SentRecords[2].seq >= 128
  /\ SentRecords[2].rxTimeStamp # 0 /\ SentRecords[2].distance = 0
  /\ Len(StorageCalls) = 2
  /\ StorageCalls[1].op = "tdoaStorageSetTimeOfFlight"
  /\ StorageCalls[2].op = "tdoaStorageSetRemoteRxTime"

\* ------------------------------------------------------------------ timeouts
RadioStarts == { "dwStartReceive", "dwStartTransmit" }

\* C18: handling eventTimeout or eventReceiveTimeout decodes nothing: no call
\* is made before the look at the outgoing queue, no call is made on the
\* engine or on a context, rangingOk and the telemetry statics keep their
\* values; the handler looks at the queue once, starts a transmission or the
\* receiver once, and ends with the statistics update.
C18_TimeoutsDoNotDecode ==
  [][ (Handled("eventTimeout") \/ Handled("eventReceiveTimeout")) =>
        /\ CallsOfReceive(calls') = << >>
        /\ \A i \in 1..Len(calls') :
             calls'[i].op \notin EngineCalls \cup { "STATS_CNT_RATE_EVENT" }
        /\ dec' = NoDec
        /\ UNCHANGED << rangingOk, log_snr, log_powerdiff, log_anchor_RX,
                        log_anchor_tof >>
        /\ calls'[1].op = "lpsGetLppShort"
        /\ CountIn(calls', "lpsGetLppShort") = 1
        /\ Cardinality({ i \in 1..Len(calls') : calls'[i].op \in RadioStarts }) = 1
        /\ calls'[Len(calls')].op = "tdoaStatsUpdate"
        /\ CountIn(calls', "tdoaStatsUpdate") = 1 ]_vars

C18_Witness ==
  /\ phase = "returned"
  /\ event = "eventReceiveTimeout"
  /\ rangingOk
  /\ log_snr[1] = 3
  /\ dec = NoDec
  /\ CountIn(calls, "dwStartTransmit") = 1
  /\ calls[1].op = "lpsGetLppShort"

\* ------------------------------------------------ reads of the LPP decoder
\* C19: for a TDOA3 frame that holds all the records it announces, the bytes
\* handleLppPacket and handleLppShortPacket read (the header tag, the type
\* byte, the fields of an anchor position) all lie before the end of the
\* received payload.
C19_LppReadsInsidePayload ==
  (phase = "returned" /\ event = "eventPacketReceived"
     /\ rx.frame.type = 48 /\ rx.cut = 0) =>
    dec.lppReadEnd <= PayloadLength(rx)

\* ----------------------------------------------------- the state of the radio
\* The commands of the DW1000 driver the handler issues.
RadioCommands ==
  { "dwIdle", "dwNewTransmit", "dwNewReceive", "dwSetDefaults", "dwSetData",
    "dwStartTransmit", "dwStartReceive", "dwSetReceiveWaitTimeout",
    "dwCommitConfiguration" }

RadioCallsOf(cs) == SelectSeq(cs, LAMBDA c : c.op \in RadioCommands)

\* C20: when onEvent has returned for one of the four known events, the last
\* command it gave the radio is dwStartReceive or dwStartTransmit, and every
\* dwIdle it issued is followed, in the same invocation, by a
\* dwStartTransmit.
C20_RadioNeverLeftIdle ==
  (phase = "returned" /\ event \in KnownEvents) =>
    LET rc == RadioCallsOf(calls)
    IN /\ rc # << >>
       /\ rc[Len(rc)].op \in RadioStarts
       /\ \A i \in 1..Len(rc) :
            rc[i].op = "dwIdle" =>
              /\ rc[Len(rc)].op = "dwStartTransmit"
              /\ \A j \in (i + 1)..Len(rc) : rc[j].op # "dwStartReceive"

C20_Witness ==
  /\ phase = "returned"
  /\ event = "eventPacketSent"
  /\ LET rc == RadioCallsOf(calls)
     IN /\ Len(rc) = 3
        /\ rc[1].op = "dwNewReceive"
        /\ rc[3].op = "dwStartReceive"
  /\ rangingOk

====
